---- MODULE Spec2Model ----
(***************************************************************************)
(* okaoka: a GlobalAlloc facade (MultiAllocator) that dispatches every     *)
(* allocation to one of several registered backends, chosen by a           *)
(* thread-local tag, and stores that tag in a hidden header in front of    *)
(* the user data so that dealloc can find the backend again.               *)
(*                                                                         *)
(* The model covers src/src/lib.rs: the thread-local ALLOCATOR_TAG, the    *)
(* Tag conversions and dispatch generated by                               *)
(* create_multi_allocator_backend!, MultiAllocator::alloc / dealloc and    *)
(* with_allocator.  The backends and the callers (threads that allocate,   *)
(* free, enter scopes, panic and catch panics) are the environment.        *)
(***************************************************************************)
EXTENDS Integers, Sequences, FiniteSets, TLC

\* ------------------------------------------------------------------ bounds
NumBackends == 2      \* backends listed in create_multi_allocator_backend!
MaxScopes == 2        \* with_allocator activations live at once, all threads
MaxPanics == 1        \* panics raised in one run
MaxAddr == 4          \* addresses the backends hand out are 1..MaxAddr
WordBits == 4         \* width of usize, the type of sizes and alignments

\* --------------------------------------------------------------- constants
NULL == 0             \* the null pointer
PANIC == [panic |-> TRUE]   \* a panic (assert! failed) instead of a Tag
NONE == -2            \* no value: nothing returned, nothing written
UNREACHABLE == -3     \* the unreachable!() arm of the dispatch match

U8 == 0..255
\* the threads of the process: the selection is per thread, so one thread
\* and one other show what threads do to each other
Threads == {1, 2}
Backends == 0..(NumBackends - 1)
\* raw tags callers pass to with_allocator: the registered ones, the
\* sentinel __END and one value above it
RawTags == 0..(NumBackends + 1)
Addrs == 1..MaxAddr
\* the layouts callers ask for: a size that is not zero, an alignment that
\* is a power of two
Layouts ==
    {[size |-> 1, align |-> 1], [size |-> 2, align |-> 1],
     [size |-> 1, align |-> 2]}

\* usize: the values are 0..(Word - 1) and + wraps around at Word; isize::MAX
\* is the largest size a Layout may have once rounded up to its alignment.
Word == 2 ^ WordBits
ISizeMax == 2 ^ (WordBits - 1) - 1

\* The layouts a std::alloc::Layout can be: the alignment is a power of two
\* and the size, rounded up to the alignment, is at most isize::MAX.
RoundUp(size, align) == ((size + align - 1) \div align) * align
ValidLayouts ==
    {layout \in [size : 0..(Word - 1),
                 align : {2 ^ k : k \in 0..(WordBits - 1)}] :
        RoundUp(layout.size, layout.align) <= ISizeMax}

\* $enum_name::__END as u8: the variants are numbered in registration order
\* and __END comes last.
END == NumBackends

\* enum $enum_name: the i-th variant of the declaration, counted from 0.  A
\* Tag is a variant, not a byte; #[repr(u8)] gives the i-th variant the
\* discriminant i.
Variant(i) == [variant |-> i]

\* the registered tags: the variants $tag_name
Tags == {Variant(i) : i \in Backends}

\* the sentinel variant __END
SENTINEL == Variant(END)

VARIABLES
    tag,      \* ALLOCATOR_TAG: the thread-local u8, one per thread
    stack,    \* per thread, the live with_allocator activations, innermost first
    status,   \* per thread: "running", "unwinding" (a panic propagates), "dead"
    mem,      \* the header byte at each address; NONE where no tag was written
              \* since the backends last handed the address out
    owned,    \* per backend, the regions it has handed out and not got back
    blocks,   \* the blocks callers hold: pointer and layout, and how they were made
    wild,     \* alloc has returned a pointer it made from a NULL region
    crashed,  \* "no", or how the process ended: "abort" (a panic left alloc),
              \* "fault" (a store through NULL), "corrupt" (a backend was
              \* given a region it had not handed out)
    panics    \* panics raised so far

vars == <<tag, stack, status, mem, owned, blocks, wild, crashed, panics>>


\* ------------------------------------------------------- Selection Context
\* get_allocator_tag(): read the calling thread's ALLOCATOR_TAG.
get_allocator_tag(t) == tag[t]

\* set_allocator_tag on one static shared by the threads, not a thread_local!.
set_allocator_tag_shared(t, new_tag) == [u \in Threads |-> new_tag]

\* set_allocator_tag(new_tag): write the calling thread's ALLOCATOR_TAG; the
\* value is the thread-local function after the write.
set_allocator_tag(t, new_tag) == [tag EXCEPT ![t] = new_tag]

\* ---------------------------------------------------------------------- Tag
\* From<u8> without the assert!: an out-of-range value becomes the last tag.
FromU8_clamp(raw_tag) ==
    IF raw_tag < END THEN Variant(raw_tag) ELSE Variant(END - 1)

\* From<u8> without the assert!: an out-of-range value wraps around.
FromU8_wrap(raw_tag) == Variant(raw_tag % END)

\* From<u8> whose assert! lets the sentinel through: raw_tag <= __END.
FromU8_inclusive(raw_tag) == IF raw_tag <= END THEN Variant(raw_tag) ELSE PANIC

\* impl From<u8> for $enum_name: assert!(raw_tag < __END as u8), then
\* transmute: the variant whose discriminant is the byte.
FromU8(raw_tag) == IF raw_tag < END THEN Variant(raw_tag) ELSE PANIC

\* tag as u8 that counts the variants from 1.
IntoU8_from1(t) == (t.variant + 1) % 256

\* impl From<$enum_name> for u8: tag as u8, the discriminant of the variant.
IntoU8(t) == t.variant % 256

\* A match whose arms all name the first registered allocator.
Dispatch_first(t) == IF t \in Tags THEN 0 ELSE UNREACHABLE

\* The match of Backend::alloc / Backend::dealloc: the i-th variant goes to the
\* i-th registered allocator, __END to unreachable!().
Dispatch(t) == IF t \in Tags THEN t.variant ELSE UNREACHABLE

\* ------------------------------------------------------------------ layouts
\* alloc that adds size and tag_size in an integer one bit narrower.
AllocLayout_narrow(layout) ==
    [size |-> (layout.size + layout.align) % (2 ^ (WordBits - 1)),
     align |-> layout.align]

\* alloc: tag_size = layout.align(); new_layout = (size + tag_size, align),
\* the sum in usize.
AllocLayout(layout) ==
    [size |-> (layout.size + layout.align) % Word, align |-> layout.align]

\* dealloc that forgets the header when it rebuilds the layout.
DeallocLayout_nosum(layout) == [size |-> layout.size, align |-> layout.align]

\* dealloc: the same computation, written a second time in the source.
DeallocLayout(layout) ==
    [size |-> (layout.size + layout.align) % Word, align |-> layout.align]

\* alloc that keeps a header of one byte whatever the alignment.
UserPtr_byte(ptr, layout) == ptr + 1

\* alloc: ptr.add(tag_size).
UserPtr(ptr, layout) == ptr + layout.align

\* dealloc: ptr.sub(tag_size).
HeaderPtr(ptr, layout) == ptr - layout.align

\* alloc that returns the block without writing its header.
WriteTag_none(ptr, allocator_tag) == mem

\* alloc: std::ptr::write(ptr, allocator_tag); the value is the memory after
\* the write.
WriteTag(ptr, allocator_tag) == [mem EXCEPT ![ptr] = allocator_tag]

\* dealloc that asks the Selection Context instead of the header.
ReadTag_current(t, new_ptr) == tag[t]

\* dealloc: std::ptr::read(new_ptr), the tag byte in the header.
ReadTag(t, new_ptr) == mem[new_ptr]

\* ----------------------------------------------------------------- backends
\* The bytes of a region.
Bytes(r) == r.ptr..(r.ptr + r.size - 1)

AllOwned == UNION {owned[b] : b \in Backends}

\* What a backend may answer to alloc(layout): an aligned region inside the
\* address space that overlaps nothing handed out, or NULL (out of memory).
BackendAnswers(layout) ==
    {NULL} \cup
    {p \in Addrs :
        /\ p % layout.align = 0
        /\ p + layout.size - 1 <= MaxAddr
        /\ \A r \in AllOwned :
              Bytes(r) \cap (p..(p + layout.size - 1)) = {}}

Region(p, layout) == [ptr |-> p, size |-> layout.size, align |-> layout.align]

\* -------------------------------------------------------------------- Init
Init ==
    /\ tag = [t \in Threads |-> 0]          \* UnsafeCell::new(0)
    /\ stack = [t \in Threads |-> <<>>]
    /\ status = [t \in Threads |-> "running"]
    /\ mem = [a \in Addrs |-> NONE]
    /\ owned = [b \in Backends |-> {}]
    /\ blocks = {}
    /\ wild = FALSE
    /\ crashed = "no"
    /\ panics = 0

Alive == crashed = "no"

\* The process ends: its threads and its memory are gone, and what is left
\* of the state is how it ended.
Crash(how) ==
    /\ crashed' = how
    /\ tag' = [t \in Threads |-> 0]
    /\ stack' = [t \in Threads |-> <<>>]
    /\ status' = [t \in Threads |-> "dead"]
    /\ mem' = [a \in Addrs |-> NONE]
    /\ owned' = [b \in Backends |-> {}]
    /\ blocks' = {}
    /\ wild' = FALSE

Running(t) == Alive /\ status[t] = "running"

\* The activations live in the process.
RECURSIVE SumLen(_)
SumLen(S) ==
    IF S = {} THEN 0
    ELSE LET t == CHOOSE x \in S : TRUE IN Len(stack[t]) + SumLen(S \ {t})

\* ----------------------------------------------------------- with_allocator
\* One activation of with_allocator: its argument and its local old_tag;
\* entry is the thread's tag in the state the call was made in.
Frame(t, allocator_tag) ==
    [old_tag |-> get_allocator_tag(t), allocator_tag |-> allocator_tag,
     entry |-> tag[t]]

\* set_allocator_tag(allocator_tag), the statement before closure().
Override(t, allocator_tag) == set_allocator_tag(t, allocator_tag)

\* with_allocator that returns without the second set_allocator_tag.
Restore_skip(t, frame) == tag

\* set_allocator_tag(old_tag), the statement after closure().
Restore(t, frame) == set_allocator_tag(t, frame.old_tag)

\* with_allocator up to the call of the closure: old_tag is read, the new tag
\* is stored whatever its value, and the closure starts.
Enter(t, allocator_tag) ==
    /\ Running(t)
    /\ SumLen(Threads) < MaxScopes
    /\ stack' = [stack EXCEPT ![t] = <<Frame(t, allocator_tag)>> \o @]
    /\ tag' = Override(t, allocator_tag)
    /\ UNCHANGED <<status, mem, owned, blocks, wild, crashed, panics>>

\* $name::with(tag, closure): with_allocator(tag.into(), closure).
With(t, tg) == Enter(t, IntoU8(tg))

\* The closure returns: with_allocator restores old_tag and returns.
Exit(t) ==
    /\ Running(t)
    /\ stack[t] # <<>>
    /\ tag' = Restore(t, Head(stack[t]))
    /\ stack' = [stack EXCEPT ![t] = Tail(@)]
    /\ UNCHANGED <<status, mem, owned, blocks, wild, crashed, panics>>

\* The closure panics: the panic starts to propagate from inside closure().
ClosurePanic(t) ==
    /\ Running(t)
    /\ stack[t] # <<>>
    /\ panics < MaxPanics
    /\ panics' = panics + 1
    /\ status' = [status EXCEPT ![t] = "unwinding"]
    /\ UNCHANGED <<tag, stack, mem, owned, blocks, wild, crashed>>

\* The panic leaves with_allocator through closure(): the activation is
\* dropped and the statement after closure() is not executed.
Unwind(t) ==
    /\ Alive
    /\ status[t] = "unwinding"
    /\ stack[t] # <<>>
    /\ stack' = [stack EXCEPT ![t] = Tail(@)]
    /\ UNCHANGED <<tag, status, mem, owned, blocks, wild, crashed, panics>>

\* A catch_unwind of the caller stops the panic; the thread runs on.
Catch(t) ==
    /\ Alive
    /\ status[t] = "unwinding"
    /\ status' = [status EXCEPT ![t] = "running"]
    /\ UNCHANGED <<tag, stack, mem, owned, blocks, wild, crashed, panics>>

\* Nothing catches the panic: the thread ends.
ThreadEnd(t) ==
    /\ Alive
    /\ status[t] = "unwinding"
    /\ stack[t] = <<>>
    /\ status' = [status EXCEPT ![t] = "dead"]
    /\ UNCHANGED <<tag, stack, mem, owned, blocks, wild, crashed, panics>>

\* ------------------------------------------------- MultiAllocator::alloc
\* What the caller of a successful alloc holds: the pointer and the layout it
\* asked for.  The other fields remember the call: the region and the size
\* the backend was asked for, the backend asked, and the calling thread with
\* its tag in the state the call was made in.
Block(t, layout, p, b) ==
    [ptr |-> UserPtr(p, layout), size |-> layout.size, align |-> layout.align,
     region |-> p, rsize |-> AllocLayout(layout).size, backend |-> b,
     tag |-> tag[t], thread |-> t]

\* allocator_tag.into() panics (the assert! of From<u8>, or unreachable!()):
\* Backend::alloc is not entered.  A panic that leaves a GlobalAlloc is
\* undefined behaviour: the thread unwinds or the process aborts.
AllocPanic(t, layout) ==
    /\ Running(t)
    /\ \/ FromU8(get_allocator_tag(t)) = PANIC
       \/ Dispatch(FromU8(get_allocator_tag(t))) = UNREACHABLE
    /\ panics < MaxPanics
    /\ panics' = panics + 1
    /\ \/ /\ status' = [status EXCEPT ![t] = "unwinding"]
          /\ UNCHANGED <<tag, stack, mem, owned, blocks, wild, crashed>>
       \/ Crash("abort")

\* The backend returns a region: the tag is written to its first byte and
\* the pointer after the header is returned.
AllocOk(t, layout) ==
    /\ Running(t)
    /\ FromU8(get_allocator_tag(t)) # PANIC
    /\ Dispatch(FromU8(get_allocator_tag(t))) # UNREACHABLE
    /\ LET allocator_tag == get_allocator_tag(t)
           b == Dispatch(FromU8(allocator_tag))
           new_layout == AllocLayout(layout)
       IN \E p \in BackendAnswers(new_layout) \ {NULL} :
            /\ owned' = [owned EXCEPT ![b] = @ \cup {Region(p, new_layout)}]
            /\ mem' = WriteTag(p, allocator_tag)
            /\ blocks' = blocks \cup {Block(t, layout, p, b)}
    /\ UNCHANGED <<tag, stack, status, wild, crashed, panics>>

\* The backend returns NULL.  alloc does not test the pointer: it writes the
\* tag through it (undefined behaviour: the process faults, or the store is
\* lost) and returns NULL + tag_size, which is not NULL.
AllocNull(t, layout) ==
    /\ Running(t)
    /\ FromU8(get_allocator_tag(t)) # PANIC
    /\ Dispatch(FromU8(get_allocator_tag(t))) # UNREACHABLE
    /\ NULL \in BackendAnswers(AllocLayout(layout))
    /\ \/ Crash("fault")
       \/ /\ wild' = (wild \/ UserPtr(NULL, layout) # NULL)
          /\ UNCHANGED <<tag, stack, status, mem, owned, blocks, crashed>>
    /\ UNCHANGED panics

\* ----------------------------------------------- MultiAllocator::dealloc
\* dealloc(ptr, layout) of a block the caller holds, with the pointer and the
\* layout of its allocation (the precondition of GlobalAlloc::dealloc).  The
\* backend takes the region back if it handed it out; a backend given
\* anything else is outside its contract: the heap is corrupt.  The bytes of
\* a region taken back are the backend's again: what they held is forgotten.
Dealloc(t, blk) ==
    /\ Running(t)
    /\ blk \in blocks
    /\ LET layout == [size |-> blk.size, align |-> blk.align]
           new_ptr == HeaderPtr(blk.ptr, layout)
           new_layout == DeallocLayout(layout)
           conv == FromU8(ReadTag(t, new_ptr))
           b == Dispatch(conv)
       IN IF conv = PANIC \/ b = UNREACHABLE
          THEN /\ status' = [status EXCEPT ![t] = "unwinding"]
               /\ UNCHANGED <<tag, stack, owned, blocks, mem, wild, crashed>>
          ELSE IF Region(new_ptr, new_layout) \notin owned[b]
          THEN Crash("corrupt")
          ELSE /\ owned' = [owned EXCEPT ![b] = @ \ {Region(new_ptr, new_layout)}]
               /\ mem' = [a \in Addrs |->
                            IF a \in Bytes(Region(new_ptr, new_layout))
                            THEN NONE ELSE mem[a]]
               /\ blocks' = blocks \ {blk}
               /\ UNCHANGED <<tag, stack, status, wild, crashed>>
    /\ UNCHANGED panics

\* -------------------------------------------------------------------- Next
Next ==
    \/ \E t \in Threads, r \in RawTags : Enter(t, r)
    \/ \E t \in Threads, tg \in Tags : With(t, tg)
    \/ \E t \in Threads : Exit(t)
    \/ \E t \in Threads : ClosurePanic(t)
    \/ \E t \in Threads : Unwind(t)
    \/ \E t \in Threads : Catch(t)
    \/ \E t \in Threads : ThreadEnd(t)
    \/ \E t \in Threads, layout \in Layouts : AllocOk(t, layout)
    \/ \E t \in Threads, layout \in Layouts : AllocNull(t, layout)
    \/ \E t \in Threads, layout \in Layouts : AllocPanic(t, layout)
    \/ \E t \in Threads, blk \in blocks : Dealloc(t, blk)

Spec == Init /\ [][Next]_vars

\* with_allocator and the ways its closure ends, without the heap.
NextScope ==
    \/ \E t \in Threads, r \in RawTags : Enter(t, r)
    \/ \E t \in Threads, tg \in Tags : With(t, tg)
    \/ \E t \in Threads : Exit(t)
    \/ \E t \in Threads : ClosurePanic(t)
    \/ \E t \in Threads : Unwind(t)
    \/ \E t \in Threads : Catch(t)
    \/ \E t \in Threads : ThreadEnd(t)

SpecScope == Init /\ [][NextScope]_vars

\* Sequences of alloc, dealloc and with_allocator calls whose closures return.
NextAlloc ==
    \/ \E t \in Threads, r \in RawTags : Enter(t, r)
    \/ \E t \in Threads, tg \in Tags : With(t, tg)
    \/ \E t \in Threads : Exit(t)
    \/ \E t \in Threads, layout \in Layouts : AllocOk(t, layout)
    \/ \E t \in Threads, layout \in Layouts : AllocNull(t, layout)
    \/ \E t \in Threads, layout \in Layouts : AllocPanic(t, layout)
    \/ \E t \in Threads, blk \in blocks : Dealloc(t, blk)

SpecAlloc == Init /\ [][NextAlloc]_vars

\* ===================================================================== claims
\* Steps of one thread, told from the two states of the step.
EnterStep(t) == Len(stack'[t]) = Len(stack[t]) + 1

\* with_allocator returns after its closure returned.
ReturnStep(t) ==
    /\ status[t] = "running" /\ status'[t] = "running"
    /\ stack[t] # <<>> /\ stack'[t] = Tail(stack[t])

\* with_allocator is left by the panic of its closure.
UnwindStep(t) ==
    /\ status[t] = "unwinding" /\ status'[t] = "unwinding"
    /\ stack[t] # <<>> /\ stack'[t] = Tail(stack[t])

\* The region and the layout that alloc got from the backend for a block.
RegionOf(blk) ==
    [ptr |-> blk.region, size |-> blk.rsize, align |-> blk.align]

\* The step frees blk: the caller no longer holds it and the process lives.
Freed(blk) == blk \in blocks /\ blk \notin blocks' /\ crashed' = "no"

\* C1 (Isolation): a block allocated while the calling thread's tag was A is
\* given back, when freed with its pointer and layout, to backend A and to
\* no other backend, whatever the current tag of the freeing thread is; no
\* backend is ever given a region it did not hand out.
C1_Isolation ==
    [][/\ crashed' # "corrupt"
       /\ \A blk \in blocks :
            Freed(blk) =>
              /\ blk.tag \in Backends
              /\ \E r \in owned[blk.tag] :
                    /\ r.ptr = blk.region
                    /\ owned'[blk.tag] = owned[blk.tag] \ {r}
              /\ \A b \in Backends \ {blk.tag} : owned'[b] = owned[b]]_vars

\* C1 witness: a thread holds a block it allocated under one tag while its
\* current tag is another registered tag, and it can free the block now.
C1_Witness ==
    \E blk \in blocks :
        /\ Running(blk.thread)
        /\ tag[blk.thread] \in Backends
        /\ tag[blk.thread] # blk.tag
        /\ ENABLED Dealloc(blk.thread, blk)

\* C2 (Scoped restoration on normal return): when with_allocator returns
\* after its closure returned, the thread's tag is the tag it had when
\* with_allocator was called, whatever the closure did to it.
C2_RestoredOnReturn ==
    [][\A t \in Threads :
          ReturnStep(t) => tag'[t] = Head(stack[t]).entry]_vars

\* C2 witness: inside a with_allocator whose closure can return now, the
\* current tag is neither the tag at the call nor the tag of the call: the
\* closure has left another tag behind (a nested call ended by a panic that
\* the closure caught).
C2_Witness ==
    \E t \in Threads :
        /\ Running(t)
        /\ stack[t] # <<>>
        /\ tag[t] # Head(stack[t]).entry
        /\ tag[t] # Head(stack[t]).allocator_tag
        /\ Head(stack[t]).entry # Head(stack[t]).allocator_tag
        /\ ENABLED Exit(t)

\* C3 (Scoped restoration on abnormal exit): when the closure panics and the
\* panic leaves with_allocator, the thread's tag is the tag it had when
\* with_allocator was called.
C3_RestoredOnUnwind ==
    [][\A t \in Threads :
          UnwindStep(t) => tag'[t] = Head(stack[t]).entry]_vars

\* C4 (Nesting): while a thread runs the closure of its innermost
\* with_allocator(B, ..), its current tag is B: B throughout the inner
\* closure, and A again in the outer closure once the inner call returned.
C4_Nesting ==
    \A t \in Threads :
        (Running(t) /\ stack[t] # <<>>) =>
            tag[t] = Head(stack[t]).allocator_tag

\* C5 (Per-thread selection): a block a thread allocates inside its own
\* with_allocator(O, ..), O registered, comes from backend O, and entering or
\* leaving with_allocator on one thread changes no other thread's tag.
C5_PerThread ==
    [][/\ \A blk \in blocks' \ blocks :
            (/\ stack[blk.thread] # <<>>
             /\ Head(stack[blk.thread]).allocator_tag \in Backends)
            => blk.backend = Head(stack[blk.thread]).allocator_tag
       /\ \A t \in Threads :
            (EnterStep(t) \/ ReturnStep(t) \/ UnwindStep(t)) =>
                \A u \in Threads \ {t} : tag'[u] = tag[u]]_vars

\* C6 (Default selection): a running thread that is outside every
\* with_allocator has the current tag 0, and what it allocates there comes
\* from the first registered backend.
C6_Default ==
    [][/\ \A t \in Threads :
            (crashed' = "no" /\ status'[t] = "running" /\ stack'[t] = <<>>)
            => tag'[t] = 0
       /\ \A blk \in blocks' \ blocks :
            stack[blk.thread] = <<>> => blk.backend = 0]_vars

\* C7 (Backend failure is propagated): when the backend returns NULL, alloc
\* returns NULL and writes no header: it never stores through NULL and never
\* returns a pointer made from NULL.
C7_NullPropagated == ~wild /\ crashed # "fault"

\* C8 (Range validation): From<u8> fails for every raw value >= N, the
\* sentinel included, and yields the r-th tag for r < N; so no block is ever
\* made under a current tag >= N by clamping or wrapping it, and a block made
\* under tag r < N comes from the r-th backend.
C8_RangeValidation ==
    /\ \A r \in U8 : r >= NumBackends => FromU8(r) = PANIC
    /\ \A r \in U8 : r < NumBackends =>
          FromU8(r) \in Tags /\ Dispatch(FromU8(r)) = r
    /\ \A blk \in blocks : blk.tag < NumBackends /\ blk.backend = blk.tag

\* C8 witness: one thread's alloc has panicked under a current tag >= N while
\* a block made under the last registered tag is held.
C8_Witness ==
    /\ \E t \in Threads : status[t] = "unwinding" /\ tag[t] >= NumBackends
    /\ \E blk \in blocks :
          blk.tag = NumBackends - 1 /\ blk.backend = NumBackends - 1

\* C9 (Invalid selection is detected at allocation): with_allocator stores
\* any raw tag, valid or not, and goes on to run the closure; while every
\* running thread's current tag is >= N no step asks a backend for memory or
\* hands out a pointer, and no block is ever made under such a tag.
C9_DetectedAtAlloc ==
    [][/\ \A t \in Threads :
            EnterStep(t) =>
                /\ tag'[t] = Head(stack'[t]).allocator_tag
                /\ status'[t] = "running"
       /\ \A blk \in blocks' \ blocks : blk.tag < NumBackends
       /\ (\A t \in Threads : Running(t) => tag[t] >= NumBackends) =>
            /\ blocks' \subseteq blocks
            /\ \A b \in Backends : owned'[b] \subseteq owned[b]
            /\ (wild' => wild)
            /\ crashed' # "fault"]_vars

\* C9 witness: a thread is inside with_allocator(t, ..) with t >= N stored as
\* its current tag, and its alloc there has panicked.
C9_Witness ==
    \E t \in Threads :
        /\ status[t] = "unwinding"
        /\ stack[t] # <<>>
        /\ Head(stack[t]).allocator_tag >= NumBackends
        /\ tag[t] = Head(stack[t]).allocator_tag

\* C10 (Round-trip): alloc(size, align) asks the backend for (size + align,
\* align) and returns region + align; dealloc of that pointer with (size,
\* align) gives the same backend the same region with the same layout, and
\* changes nothing else of what the backends have handed out.
C10_RoundTrip ==
    [][/\ crashed' # "corrupt"
       /\ \A blk \in blocks' \ blocks :
            /\ blk.rsize = blk.size + blk.align
            /\ blk.ptr = blk.region + blk.align
            /\ blk.backend \in Backends
            /\ RegionOf(blk) \notin owned[blk.backend]
            /\ owned' = [owned EXCEPT ![blk.backend] = @ \cup {RegionOf(blk)}]
       /\ \A blk \in blocks :
            Freed(blk) =>
              /\ blk.backend \in Backends
              /\ RegionOf(blk) \in owned[blk.backend]
              /\ owned' = [owned EXCEPT ![blk.backend] = @ \ {RegionOf(blk)}]]_vars

\* C10 witness: a block of size 1 and alignment 2 is held, its region of 3
\* bytes is with its backend, and a running thread can free it now.
C10_Witness ==
    \E blk \in blocks, t \in Threads :
        /\ blk.size = 1 /\ blk.align = 2 /\ blk.rsize = 3
        /\ RegionOf(blk) \in owned[blk.backend]
        /\ ENABLED Dealloc(t, blk)

\* The alignments callers ask for, and the regions an aligned backend may
\* answer with for each of them.
Alignments == {1, 2, 4, 8, 16, 64}
AlignedRegions(a) == {k * a : k \in 1..3}

\* C11 (Alignment preservation): the pointer a successful alloc returns is
\* the start of the backend's region plus the alignment; so when the region
\* is aligned the pointer is a multiple of the alignment, for the blocks
\* callers hold and for every alignment 1, 2, 4, 8, 16, 64.
C11_Alignment ==
    /\ \A blk \in blocks :
          /\ blk.ptr = blk.region + blk.align
          /\ blk.region % blk.align = 0 => blk.ptr % blk.align = 0
    /\ \A a \in Alignments : \A p \in AlignedRegions(a) :
          LET layout == [size |-> 1, align |-> a]
          IN /\ UserPtr(p, layout) = p + a
             /\ UserPtr(p, layout) % a = 0
             /\ HeaderPtr(UserPtr(p, layout), layout) = p

\* C11 witness: a block of alignment 2 is held; its region is aligned and
\* its pointer is two bytes further.
C11_Witness ==
    \E blk \in blocks :
        /\ blk.align = 2
        /\ blk.region % 2 = 0
        /\ blk.ptr = blk.region + 2
        /\ RegionOf(blk) \in owned[blk.backend]
C13_TagFrame ==
    [][crashed' = "no" =>
         /\ \A t \in Threads :
               tag'[t] # tag[t] => EnterStep(t) \/ ReturnStep(t)
         /\ (blocks' # blocks \/ owned' # owned \/ mem' # mem) => tag' = tag
         /\ (\E t \in Threads : status'[t] # status[t]) => tag' = tag]_vars

\* C13 witness: a thread has allocated inside a scope and freed nothing of
\* it, and still has the scope's tag, while the other thread, outside any
\* scope, has another tag and can free the block.
C13_Witness ==
    \E blk \in blocks : \E u \in Threads \ {blk.thread} :
        /\ stack[blk.thread] # <<>>
        /\ tag[blk.thread] = Head(stack[blk.thread]).allocator_tag
        /\ tag[blk.thread] = blk.tag
        /\ stack[u] = <<>>
        /\ tag[u] # tag[blk.thread]
        /\ ENABLED Dealloc(u, blk)
\* C14 (Tag round-trip): a raw value r < N converted to a Tag and back is r,
\* and a registered Tag converted to its raw value and back is the same Tag;
\* so it is for the header byte of every block held, which dealloc converts,
\* and for the tag of the backend that made it.
C14_TagRoundTrip ==
    /\ \A r \in U8 : r < END =>
          FromU8(r) # PANIC /\ IntoU8(FromU8(r)) = r
    /\ \A tg \in Tags : IntoU8(tg) \in U8 /\ FromU8(IntoU8(tg)) = tg
    /\ \A blk \in blocks :
          /\ IntoU8(FromU8(mem[blk.region])) = mem[blk.region]
          /\ Dispatch(FromU8(IntoU8(Variant(blk.backend)))) = blk.backend

\* C14 witness: a thread is inside $name::with of the last registered tag,
\* which stored the tag's raw value, and holds a block made there, whose
\* header holds that raw value.
C14_Witness ==
    \E blk \in blocks :
        /\ stack[blk.thread] # <<>>
        /\ Head(stack[blk.thread]).allocator_tag = IntoU8(Variant(END - 1))
        /\ mem[blk.region] = IntoU8(Variant(END - 1))
        /\ FromU8(mem[blk.region]) = Variant(END - 1)
\* The match of Backend::alloc / Backend::dealloc is entered with a tag
\* converted from raw_tag and takes its __END arm.
HitsUnreachable(raw_tag) ==
    FromU8(raw_tag) # PANIC /\ Dispatch(FromU8(raw_tag)) = UNREACHABLE

\* C15 (Sentinel is never dispatched): no raw value converts to the sentinel
\* __END; so whatever raw tags with_allocator stored, no running thread's
\* alloc and no dealloc of a block held, with its pointer and layout, can
\* enter the match with __END and take its unreachable!() arm.
C15_SentinelNeverDispatched ==
    /\ \A r \in U8 : FromU8(r) # SENTINEL /\ ~HitsUnreachable(r)
    /\ \A t \in Threads : Running(t) => ~HitsUnreachable(get_allocator_tag(t))
    /\ \A blk \in blocks : \A t \in Threads :
          ~HitsUnreachable(
              ReadTag(t, HeaderPtr(blk.ptr, [size |-> blk.size,
                                             align |-> blk.align])))

\* C15 witness: a thread selected the raw value of the sentinel and its
\* alloc has panicked in the conversion, while a block is held.
C15_Witness ==
    \E t \in Threads :
        /\ status[t] = "unwinding"
        /\ get_allocator_tag(t) = IntoU8(SENTINEL)
        /\ FromU8(get_allocator_tag(t)) = PANIC
        /\ blocks # {}
\* C16 (Header validity): the header byte of every block held is the tag the
\* allocating thread had when it allocated the block, and a registered one
\* (< N); so the conversion in a dealloc of the block, by any thread, with
\* the block's pointer and layout does not panic, and no thread unwinds
\* but from a panic of alloc.
C16_HeaderValid ==
    /\ \A blk \in blocks :
          LET layout == [size |-> blk.size, align |-> blk.align]
              header == mem[HeaderPtr(blk.ptr, layout)]
          IN /\ header = blk.tag
             /\ header \in U8 /\ header < END
             /\ \A t \in Threads :
                   FromU8(ReadTag(t, HeaderPtr(blk.ptr, layout))) \in Tags
    /\ Cardinality({t \in Threads : status[t] = "unwinding"}) <= panics

\* C16 witness: a thread whose current tag is not registered can free a
\* block that was made under the last registered tag.
C16_Witness ==
    \E blk \in blocks : \E t \in Threads :
        /\ Running(t)
        /\ get_allocator_tag(t) >= END
        /\ blk.tag = END - 1
        /\ mem[blk.region] = blk.tag
        /\ ENABLED Dealloc(t, blk)
\* C17 (Cross-thread free): a dealloc by a thread other than the one that
\* allocated the block, whatever the scopes the two threads are in and
\* whatever the freeing thread's current tag, gives the block's region to
\* the backend of the tag the block was allocated under and to no other; it
\* does not panic and the heap is not corrupted.
C17_CrossThreadFree ==
    [][\A blk \in blocks : \A t2 \in Threads \ {blk.thread} :
          Dealloc(t2, blk) =>
             /\ crashed' = "no"
             /\ status' = status
             /\ blk \notin blocks'
             /\ Dispatch(FromU8(blk.tag)) \in Backends
             /\ owned'[Dispatch(FromU8(blk.tag))] =
                   owned[Dispatch(FromU8(blk.tag))] \ {RegionOf(blk)}
             /\ \A b \in Backends \ {Dispatch(FromU8(blk.tag))} :
                   owned'[b] = owned[b]]_vars

\* C17 witness: thread T2, inside a scope of a registered tag B, can free a
\* block that thread T1 allocated under another tag A, while T1 is inside a
\* scope too and backend B has regions of its own.
C17_Witness ==
    \E blk \in blocks : \E t2 \in Threads \ {blk.thread} :
        /\ stack[t2] # <<>> /\ stack[blk.thread] # <<>>
        /\ get_allocator_tag(t2) \in Backends
        /\ get_allocator_tag(t2) # blk.tag
        /\ owned[get_allocator_tag(t2)] # {}
        /\ ENABLED Dealloc(t2, blk)
\* C18 (Combined size does not wrap): for every valid layout the sum
\* size + alignment is below 2^w, so the combined size alloc and dealloc
\* compute in a w-bit word is the sum itself, and the two compute the same
\* combined layout; so every block held was asked from its backend with
\* the combined layout a dealloc of it computes.
C18_NoWrap ==
    /\ \A layout \in ValidLayouts :
          /\ layout.size + layout.align < Word
          /\ AllocLayout(layout).size = layout.size + layout.align
          /\ DeallocLayout(layout).size = layout.size + layout.align
          /\ AllocLayout(layout) = DeallocLayout(layout)
    /\ Layouts \subseteq ValidLayouts
    /\ \A blk \in blocks :
          LET layout == [size |-> blk.size, align |-> blk.align]
          IN /\ blk.rsize = blk.size + blk.align
             /\ DeallocLayout(layout).size = blk.rsize
             /\ Region(blk.region, DeallocLayout(layout)) \in owned[blk.backend]

\* C18 witness: a block of two bytes is held, asked from its backend with
\* three; and the largest valid layouts, of size isize::MAX at alignment 1
\* and of size 0 at alignment 2^(w-1), have the combined size 2^(w-1).
C18_Witness ==
    /\ \E blk \in blocks : blk.size = 2 /\ blk.rsize = 3
    /\ [size |-> ISizeMax, align |-> 1] \in ValidLayouts
    /\ [size |-> 0, align |-> ISizeMax + 1] \in ValidLayouts
    /\ AllocLayout([size |-> ISizeMax, align |-> 1]).size = ISizeMax + 1
    /\ DeallocLayout([size |-> 0, align |-> ISizeMax + 1]).size = ISizeMax + 1

====
